---- MODULE Spec2Model ----
(***************************************************************************)
(* Model of pycspr's little-endian integer encoder                         *)
(* (pycspr/codec/byte_array/utils.py) and of the ERC-20 query how-to       *)
(* (how_tos/how_to_query_a_contract.py).                                   *)
(*                                                                         *)
(* Python integers are unbounded.  They are modelled the way CPython       *)
(* stores them: a sign and a magnitude, the magnitude a little-endian      *)
(* sequence of digits (base 256 here) with no most-significant zero digit; *)
(* zero is the empty magnitude with the sign clear.                        *)
(***************************************************************************)
EXTENDS Integers, Sequences, FiniteSets, TLC

\* Largest byte length of a fixed-width slot that is exercised (U64/I64 = 8).
MaxLength == 8
\* Number of concurrent callers of the encoder.
NumThreads == 2
\* Largest number of entries in an account's named_keys list.
MaxNamedKeys == 3
\* Longest list or map value that is encoded.
MaxListLen == 2

VARIABLES
    \* ---- one call of the encoder, then one decode of its output ----
    x,          \* the value to encode (the argument x of int_to_le_bytes)
    length,     \* the argument length of int_to_le_bytes
    signed,     \* the argument signed of int_to_le_bytes
    desc,       \* the type descriptor of a typed encode / decode
    epc,        \* "call" | "returned" | "raised" | "decoded"
    ret,        \* the list returned (a sequence of bytes)
    exc,        \* the exception raised ("none" when none)
    dec,        \* the decoder's result on ret
    \* ---- concurrent callers of int_to_le_bytes ----
    targ,       \* per thread: the arguments it was called with
    tx,         \* per thread: the local variable x
    tpc,        \* per thread: position in the function
    tbuf,       \* per thread: the bytes object x.to_bytes produced
    titer,      \* per thread: how many bytes of tbuf the comprehension has read
    tlist,      \* per thread: address of the list being built / returned
    texc,       \* per thread: exception raised
    heap,       \* address -> list contents
    \* ---- one run of _main of the query how-to ----
    mpc,        \* position in _main
    named_keys, \* account_info["named_keys"] as returned by the node
    hpc,        \* _get_contract_hash: "not_called" | "scanning" | "returned" | "raised"
    idx,        \* loop position of _get_contract_hash
    contract_hash, \* the bytes _get_contract_hash returned
    rpc_log,    \* the queries issued to the node, in order
    responses,  \* the state-item responses received, in order
    tokens,     \* the values _get_contract_data returned, in order
    mexc        \* the exception that ended the run ("none" when none)

encVars == <<x, length, signed, desc, epc, ret, exc, dec>>
concVars == <<targ, tx, tpc, tbuf, titer, tlist, texc, heap>>
mainVars == <<mpc, named_keys, hpc, idx, contract_hash, rpc_log, responses, tokens, mexc>>
vars == <<encVars, concVars, mainVars>>

----------------------------------------------------------------------------
(* Python values *)

Byte == 0..255

PyInt(neg, mag) ==
    [kind |-> "int", neg |-> neg, mag |-> mag, frac |-> FALSE, chars |-> <<>>]
\* A finite float: sign, integral part of the magnitude, and whether the
\* fractional part is non-zero.
PyFloat(neg, mag, frac) ==
    [kind |-> "float", neg |-> neg, mag |-> mag, frac |-> frac, chars |-> <<>>]
PyStr(chars) ==
    [kind |-> "str", neg |-> FALSE, mag |-> <<>>, frac |-> FALSE, chars |-> chars]

Ok(v) == [ok |-> TRUE, val |-> v, err |-> "none"]
Raise(e) == [ok |-> FALSE, val |-> <<>>, err |-> e]

RECURSIVE Strip(_)
\* Drop most-significant zero digits.
Strip(s) ==
    IF s = <<>> THEN <<>>
    ELSE IF s[Len(s)] = 0 THEN Strip(SubSeq(s, 1, Len(s) - 1))
    ELSE s

RECURSIVE NatToMag(_)
NatToMag(n) == IF n = 0 THEN <<>> ELSE <<n % 256>> \o NatToMag(n \div 256)

----------------------------------------------------------------------------
(* int(x) for a str or a float: utils.py line 10 *)

DecDigits == <<"0", "1", "2", "3", "4", "5", "6", "7", "8", "9">>
IsDecDigit(c) == \E d \in 1..10 : DecDigits[d] = c
DecValue(c) == (CHOOSE d \in 1..10 : DecDigits[d] = c) - 1

RECURSIVE LStrip(_)
LStrip(s) == IF s # <<>> /\ s[1] = " " THEN LStrip(Tail(s)) ELSE s
RECURSIVE RStrip(_)
RStrip(s) ==
    IF s # <<>> /\ s[Len(s)] = " " THEN RStrip(SubSeq(s, 1, Len(s) - 1)) ELSE s

RECURSIVE DecToNat(_, _)
DecToNat(s, acc) ==
    IF s = <<>> THEN acc ELSE DecToNat(Tail(s), 10 * acc + DecValue(s[1]))

\* int(str): surrounding whitespace is dropped, one optional sign, then
\* decimal digits only; anything else is ValueError.
int_of_str(chars) ==
    LET s == RStrip(LStrip(chars))
        hasSign == s # <<>> /\ s[1] \in {"+", "-"}
        body == IF hasSign THEN Tail(s) ELSE s
    IN  IF body = <<>> \/ \E i \in 1..Len(body) : ~IsDecDigit(body[i])
        THEN Raise("ValueError")
        ELSE LET m == NatToMag(DecToNat(body, 0))
             IN  Ok(PyInt(hasSign /\ s[1] = "-" /\ m # <<>>, m))

\* int(float): truncation towards zero.
int_of_float(f) == Ok(PyInt(f.neg /\ f.mag # <<>>, f.mag))

\* utils.py lines 9-10:  if not isinstance(x, int): x = int(x)
coerce(v) ==
    IF v.kind = "int" THEN Ok(v)
    ELSE IF v.kind = "float" THEN int_of_float(v)
    ELSE int_of_str(v.chars)

----------------------------------------------------------------------------
(* int.to_bytes(length, 'little', signed=signed): utils.py line 11 *)

RECURSIVE Complement(_, _)
\* Two's complement of a magnitude, digit by digit from the least
\* significant one: each digit is inverted and the carry (1 at first) added.
Complement(mag, carry) ==
    IF mag = <<>> THEN <<>>
    ELSE LET d == (255 - mag[1]) + carry
         IN  <<d % 256>> \o Complement(Tail(mag), d \div 256)

\* OverflowError when the value is negative and unsigned is asked for, when
\* the magnitude has more digits than length, or when a signed value fills
\* all length bytes and the top bit disagrees with the sign.
to_bytes(v, n, s) ==
    IF v.neg /\ ~s THEN Raise("OverflowError")
    ELSE IF Len(v.mag) > n THEN Raise("OverflowError")
    ELSE LET digits == IF v.neg THEN Complement(v.mag, 1) ELSE v.mag
             signbyte == IF v.neg THEN 255 ELSE 0
             out == [i \in 1..n |->
                        IF i <= Len(digits) THEN digits[i] ELSE signbyte]
         IN  IF s /\ Len(v.mag) = n /\ n > 0 /\ ((out[n] >= 128) # v.neg)
             THEN Raise("OverflowError")
             ELSE Ok(out)

\* utils.py line 11: the list of the bytes of x.to_bytes(...).
first_return(v, n, s) == to_bytes(v, n, s)

----------------------------------------------------------------------------
(* 0xff & x >> 8 * i : utils.py line 12 (never reached) *)

RECURSIVE Decrement(_)
\* mag - 1, for a non-zero magnitude.
Decrement(mag) ==
    IF mag[1] > 0 THEN Strip(<<mag[1] - 1>> \o Tail(mag))
    ELSE <<255>> \o Decrement(Tail(mag))

RECURSIVE Increment(_)
\* mag + 1.
Increment(mag) ==
    IF mag = <<>> THEN <<1>>
    ELSE IF mag[1] < 255 THEN <<mag[1] + 1>> \o Tail(mag)
    ELSE <<0>> \o Increment(Tail(mag))

DropDigits(mag, k) == IF k >= Len(mag) THEN <<>> ELSE SubSeq(mag, k + 1, Len(mag))

\* x >> bits, bits a multiple of 8.  Python rounds towards minus infinity:
\* a negative x is shifted as ~(~x >> bits).
rshift(v, bits) ==
    IF ~v.neg THEN PyInt(FALSE, DropDigits(v.mag, bits \div 8))
    ELSE PyInt(TRUE, Increment(DropDigits(Decrement(v.mag), bits \div 8)))

\* 0xff & x: the low byte of x in (unbounded) two's complement.
and_ff(v) ==
    IF v.mag = <<>> THEN 0
    ELSE IF v.neg THEN (256 - v.mag[1]) % 256
    ELSE v.mag[1]

\* The operand order a precedence slip would give: (0xff & x) >> 8 * i.
shift_mask_and_first(v, i) ==
    LET m == and_ff(v) IN and_ff(rshift(PyInt(FALSE, NatToMag(m)), 8 * i))

\* >> binds tighter than &, and * tighter than >>: 0xff & (x >> (8 * i)).
shift_mask(v, i) == and_ff(rshift(v, 8 * i))

\* utils.py line 12: [0xff & x >> 8 * i for i in range(length)].
second_return(v, n) == [i \in 1..n |-> shift_mask(v, i - 1)]

----------------------------------------------------------------------------
(* int_to_le_bytes: utils.py lines 1-12 *)

\* The encoder with the bytes laid out most-significant first.
int_to_le_bytes_big(v, n, s) ==
    LET c == coerce(v)
        r == IF c.ok THEN first_return(c.val, n, s) ELSE Raise(c.err)
    IN  IF r.ok THEN Ok([i \in 1..n |-> r.val[n + 1 - i]]) ELSE r

\* The encoder returning from the second expression, which masks the value
\* to length bytes without any range check.
int_to_le_bytes_wrap(v, n, s) ==
    LET c == coerce(v)
    IN  IF c.ok THEN Ok(second_return(c.val, n)) ELSE Raise(c.err)

\* The encoder writing a negative value as its magnitude (no two's
\* complement).
int_to_le_bytes_magnitude(v, n, s) ==
    LET c == coerce(v)
    IN  IF c.ok THEN first_return(PyInt(FALSE, c.val.mag), n, s) ELSE Raise(c.err)

int_to_le_bytes(v, n, s) ==
    LET c == coerce(v)
    IN  IF c.ok THEN first_return(c.val, n, s) ELSE Raise(c.err)

----------------------------------------------------------------------------
(* Fixed-width decode.  The decoder is not among the sources; it is taken  *)
(* from the specification, section 4.1: consume exactly width/8 bytes and  *)
(* reconstruct the integer, BufferUnderflow when fewer bytes remain.       *)

decode_fixed(bytes, n, s) ==
    IF Len(bytes) < n THEN [ok |-> FALSE, val |-> PyInt(FALSE, <<>>),
                            used |-> 0, err |-> "BufferUnderflow"]
    ELSE LET b == SubSeq(bytes, 1, n)
             isNeg == s /\ n > 0 /\ b[n] >= 128
             mag == IF isNeg THEN Strip(Complement(b, 1)) ELSE Strip(b)
         IN  [ok |-> TRUE, val |-> PyInt(isNeg, mag), used |-> n, err |-> "none"]

NoDecode == [ok |-> FALSE, val |-> PyInt(FALSE, <<>>), used |-> 0, err |-> "none"]

\* A type descriptor: a tag, the length of a ByteArray, the inner descriptors
\* of a parameterized variant.
Desc(tag, n, args) == [tag |-> tag, n |-> n, args |-> args]
Simple(tag) == Desc(tag, 0, <<>>)

----------------------------------------------------------------------------
(* Inputs *)

\* Digit values at the edges of a byte and of its sign bit.
DigitVals == {0, 1, 127, 128, 255}

\* Magnitudes of up to MaxLength + 1 digits: a run of one digit value
\* followed by a run of another.  They include 2^k - 1, 2^k and 2^k + 1 at
\* every byte and sign-bit boundary.
IntMags ==
    {Strip([i \in 1..n |-> IF i <= k THEN a ELSE b]) :
        n \in 0..(MaxLength + 1), k \in 0..MaxLength,
        a \in DigitVals, b \in DigitVals}

IntInputs == {PyInt(neg /\ m # <<>>, m) : neg \in BOOLEAN, m \in IntMags}

FloatInputs ==
    {PyFloat(neg, NatToMag(m), f) :
        neg \in BOOLEAN, m \in {0, 3, 255, 256}, f \in BOOLEAN}

StrInputs ==
    {PyStr(s) : s \in {<<"7">>, <<"-", "1">>, <<"2", "5", "6">>,
                       <<" ", "1", "2", " ">>, <<"+", "3">>,
                       <<"a", "b", "c">>, <<"1", ".", "5">>, <<>>}}

Inputs == IntInputs \cup FloatInputs \cup StrInputs

\* v lies in the range of a slot of n bytes: 0 <= v < 2^(8n) when unsigned,
\* -2^(8n-1) <= v < 2^(8n-1) when signed.
Fits(v, n, s) ==
    LET m == v.mag
        top == IF Len(m) = n THEN m[n] ELSE 0
        lowZero == \A i \in 1..(n - 1) : i > Len(m) \/ m[i] = 0
    IN  /\ Len(m) <= n
        /\ ~s => ~v.neg
        /\ (s /\ ~v.neg) => top < 128
        /\ (s /\ v.neg) => (top < 128 \/ (top = 128 /\ lowZero))

----------------------------------------------------------------------------
(* One call of int_to_le_bytes *)

ConcIdle ==
    /\ targ = <<>> /\ tx = <<>> /\ tpc = <<>> /\ tbuf = <<>> /\ titer = <<>>
    /\ tlist = <<>> /\ texc = <<>> /\ heap = <<>>

MainIdle ==
    /\ mpc = "idle" /\ named_keys = <<>> /\ hpc = "not_called" /\ idx = 0 /\ contract_hash = <<>>
    /\ rpc_log = <<>> /\ responses = <<>> /\ tokens = <<>> /\ mexc = "none"

EncInit ==
    /\ x \in Inputs
    /\ length \in 1..MaxLength
    /\ signed \in BOOLEAN
    /\ desc = Simple("Unit")
    /\ epc = "call"
    /\ ret = <<>>
    /\ exc = "none"
    /\ dec = NoDecode
    /\ ConcIdle
    /\ MainIdle

\* The caller invokes int_to_le_bytes(x, length, signed).
Encode ==
    /\ epc = "call"
    /\ LET r == int_to_le_bytes(x, length, signed)
       IN  /\ epc' = IF r.ok THEN "returned" ELSE "raised"
           /\ ret' = r.val
           /\ exc' = r.err
    /\ UNCHANGED <<x, length, signed, desc, dec, concVars, mainVars>>

EncNext == Encode

SpecEnc == EncInit /\ [][EncNext]_vars

----------------------------------------------------------------------------
(* Properties of the encoder *)

Pad(m, n) == [i \in 1..n |-> IF i <= Len(m) THEN m[i] ELSE 0]

RECURSIVE SumCarry(_, _, _)
\* Carry out of the digit-wise sum a + b (equal lengths), which must leave
\* every digit zero; -1 when some digit of the sum is not zero.
SumCarry(a, b, carry) ==
    IF a = <<>> THEN carry
    ELSE LET d == a[1] + b[1] + carry
         IN  IF d % 256 # 0 THEN -1 ELSE SumCarry(Tail(a), Tail(b), d \div 256)

\* bytes is the little-endian form of v mod 2^(8n): the magnitude itself for
\* v >= 0, and for v < 0 the number that added to |v| gives exactly 2^(8n).
RepresentsMod(bytes, v, n) ==
    IF v.neg THEN SumCarry(bytes, Pad(v.mag, n), 0) = 1
    ELSE bytes = Pad(v.mag, n)

\* The value of a one-digit integer, as a number.
SmallValue(v) ==
    IF v.mag = <<>> THEN 0 ELSE IF v.neg THEN 0 - v.mag[1] ELSE v.mag[1]

Called == epc # "call"

\* C1: for an integer x that fits (length, signed), int_to_le_bytes returns
\* exactly length bytes, each in 0..255, that are x mod 2^(8*length) in
\* little-endian order (two's complement for negative x); a one-byte result
\* is literally (x mod 256); the U8 value 255 gives the single byte 0xFF.
C1_FixedWidthLayout ==
    (Called /\ x.kind = "int" /\ Fits(x, length, signed)) =>
        /\ epc # "raised"
        /\ Len(ret) = length
        /\ \A i \in 1..length : ret[i] \in Byte
        /\ RepresentsMod(ret, x, length)
        /\ length = 1 => ret[1] = ((SmallValue(x) % 256) \div 1) % 256
        /\ (x = PyInt(FALSE, <<255>>) /\ length = 1 /\ ~signed) => ret = <<255>>

\* A negative 64-bit value that fills all eight bytes has been encoded.
C1_Witness ==
    /\ epc = "returned" /\ x.kind = "int" /\ x.neg /\ signed
    /\ length = 8 /\ Len(x.mag) = 8 /\ ret[8] >= 128 /\ ret[1] # 0

\* C2: an integer x that does not fit (length, signed) makes int_to_le_bytes
\* raise OverflowError; no bytes are returned.
C2_OverflowRaises ==
    (Called /\ x.kind = "int" /\ ~Fits(x, length, signed)) =>
        /\ epc = "raised"
        /\ exc = "OverflowError"
        /\ ret = <<>>

\* 256 was offered to a one-byte unsigned slot and the call raised.
C2_Witness ==
    /\ epc = "raised" /\ x = PyInt(FALSE, <<0, 1>>) /\ length = 1 /\ ~signed

\* C4: a value that is not an integer (a str, a float) is refused: the call
\* raises and returns no bytes.
C4_NonIntegerRefused ==
    (Called /\ x.kind # "int") => (epc = "raised" /\ ret = <<>>)

\* C9: on in-range input the shift-and-mask list of the second return equals
\* the list the first return produced, which is what the call returned.
C9_ReturnsAgree ==
    (Called /\ x.kind = "int") =>
        /\ (epc = "raised") = ~first_return(x, length, signed).ok
        /\ Fits(x, length, signed) =>
            /\ ret = first_return(x, length, signed).val
            /\ second_return(x, length) = ret

\* A negative value whose low byte is zero (the shift must round down) was
\* encoded.
C9_Witness ==
    /\ epc = "returned" /\ x.kind = "int" /\ x.neg /\ length > 1
    /\ x.mag[1] = 0 /\ second_return(x, length) = ret

----------------------------------------------------------------------------
(* Concurrent callers of int_to_le_bytes.  Each thread runs the function   *)
(* on its own arguments; the interpreter switches threads between the      *)
(* steps below.  The only objects a call creates are the int of line 10,   *)
(* the bytes object of to_bytes and the list the comprehension fills; the  *)
(* function reads no global and no attribute.                              *)

Threads == 1..NumThreads

ConcLengths == {1, 2}

ConcInputs == {PyInt(TRUE, <<1>>), PyInt(FALSE, <<0, 1>>), PyStr(<<"7">>)}

ConcArgs ==
    [x : ConcInputs, length : ConcLengths, signed : BOOLEAN]

\* One list object shared by every call (a module-level buffer).
list_alloc_shared(h) == 1

\* The comprehension of line 11 builds a new list object: an address no
\* live object has.
list_alloc(h) == Len(h) + 1

ConcInit ==
    /\ targ \in [Threads -> ConcArgs]
    /\ tx = [t \in Threads |-> targ[t].x]
    /\ tpc = [t \in Threads |-> "isinstance"]
    /\ tbuf = [t \in Threads |-> <<>>]
    /\ titer = [t \in Threads |-> 0]
    /\ tlist = [t \in Threads |-> 0]
    /\ texc = [t \in Threads |-> "none"]
    /\ heap = <<>>
    /\ x = PyInt(FALSE, <<>>) /\ length = 1 /\ signed = FALSE
    /\ desc = Simple("Unit") /\ epc = "idle"
    /\ ret = <<>> /\ exc = "none" /\ dec = NoDecode
    /\ MainIdle

\* line 9: if not isinstance(x, int)
TIsInstance(t) ==
    /\ tpc[t] = "isinstance"
    /\ tpc' = [tpc EXCEPT ![t] = IF tx[t].kind = "int" THEN "to_bytes" ELSE "int"]
    /\ UNCHANGED <<targ, tx, tbuf, titer, tlist, texc, heap, encVars, mainVars>>

\* line 10: x = int(x) rebinds the local name; the caller's object is kept.
TInt(t) ==
    /\ tpc[t] = "int"
    /\ LET c == coerce(tx[t])
       IN  /\ tx' = [tx EXCEPT ![t] = IF c.ok THEN c.val ELSE @]
           /\ tpc' = [tpc EXCEPT ![t] = IF c.ok THEN "to_bytes" ELSE "raised"]
           /\ texc' = [texc EXCEPT ![t] = c.err]
    /\ UNCHANGED <<targ, tbuf, titer, tlist, heap, encVars, mainVars>>

\* line 11: x.to_bytes(length, 'little', signed=signed)
TToBytes(t) ==
    /\ tpc[t] = "to_bytes"
    /\ LET r == to_bytes(tx[t], targ[t].length, targ[t].signed)
       IN  /\ tbuf' = [tbuf EXCEPT ![t] = r.val]
           /\ tpc' = [tpc EXCEPT ![t] = IF r.ok THEN "new_list" ELSE "raised"]
           /\ texc' = [texc EXCEPT ![t] = r.err]
    /\ UNCHANGED <<targ, tx, titer, tlist, heap, encVars, mainVars>>

\* line 11: the comprehension creates its (empty) result list.
TNewList(t) ==
    /\ tpc[t] = "new_list"
    /\ LET a == list_alloc(heap)
       IN  /\ tlist' = [tlist EXCEPT ![t] = a]
           /\ heap' = [i \in 1..(IF a > Len(heap) THEN a ELSE Len(heap)) |->
                          IF i = a THEN <<>> ELSE heap[i]]
    /\ tpc' = [tpc EXCEPT ![t] = "iterate"]
    /\ UNCHANGED <<targ, tx, tbuf, titer, texc, encVars, mainVars>>

\* line 11: one round of the comprehension: the next byte is appended.
TAppend(t) ==
    /\ tpc[t] = "iterate"
    /\ titer[t] < Len(tbuf[t])
    /\ titer' = [titer EXCEPT ![t] = @ + 1]
    /\ heap' = [heap EXCEPT ![tlist[t]] = Append(@, tbuf[t][titer[t] + 1])]
    /\ UNCHANGED <<targ, tx, tpc, tbuf, tlist, texc, encVars, mainVars>>

\* line 11: the iterator is exhausted and the list is returned.
TReturn(t) ==
    /\ tpc[t] = "iterate"
    /\ titer[t] = Len(tbuf[t])
    /\ tpc' = [tpc EXCEPT ![t] = "returned"]
    /\ UNCHANGED <<targ, tx, tbuf, titer, tlist, texc, heap, encVars, mainVars>>

ConcNext ==
    \E t \in Threads :
        \/ TIsInstance(t)
        \/ TInt(t)
        \/ TToBytes(t)
        \/ TNewList(t)
        \/ TAppend(t)
        \/ TReturn(t)

SpecConc == ConcInit /\ [][ConcNext]_vars

\* What the call of thread t gives when it runs alone.
Alone(t) == int_to_le_bytes(targ[t].x, targ[t].length, targ[t].signed)

\* C6: whatever the interleaving, a call that returned holds the list the
\* same call gives alone, a call that raised raised what it raises alone,
\* the lists of two calls are different objects, and no step changes the
\* arguments a call was given.
C6_CallsIndependent ==
    /\ [](\A t \in Threads :
            /\ tpc[t] = "returned" =>
                (Alone(t).ok /\ heap[tlist[t]] = Alone(t).val)
            /\ tpc[t] = "raised" =>
                (~Alone(t).ok /\ texc[t] = Alone(t).err)
            /\ \A u \in Threads :
                (u # t /\ tlist[t] # 0 /\ tlist[u] # 0) => tlist[t] # tlist[u])
    /\ [][targ' = targ]_vars

\* Two calls whose list building overlapped have both returned, with
\* different results.
C6_Witness ==
    /\ tpc[1] = "returned" /\ tpc[2] = "returned"
    /\ tlist[2] < tlist[1]
    /\ Len(heap[tlist[1]]) = 2 /\ Len(heap[tlist[2]]) = 2
    /\ heap[tlist[1]] # heap[tlist[2]]

----------------------------------------------------------------------------
(* The query how-to.  Python strings that the code slices or converts are  *)
(* sequences of one-character strings.                                     *)

HexDigits == <<"0", "1", "2", "3", "4", "5", "6", "7", "8", "9",
               "a", "b", "c", "d", "e", "f">>
UpperHexDigits == <<"0", "1", "2", "3", "4", "5", "6", "7", "8", "9",
                    "A", "B", "C", "D", "E", "F">>
IsHexDigit(c) == \E d \in 1..16 : HexDigits[d] = c \/ UpperHexDigits[d] = c
HexValue(c) == (CHOOSE d \in 1..16 : HexDigits[d] = c \/ UpperHexDigits[d] = c) - 1

RECURSIVE fromhex(_)
\* bytes.fromhex: pairs of hexadecimal digits of either case, spaces allowed
\* between pairs; anything else is ValueError.
fromhex(s) ==
    IF s = <<>> THEN Ok(<<>>)
    ELSE IF s[1] = " " THEN fromhex(Tail(s))
    ELSE IF Len(s) >= 2 /\ IsHexDigit(s[1]) /\ IsHexDigit(s[2])
    THEN LET rest == fromhex(SubSeq(s, 3, Len(s)))
         IN  IF rest.ok
             THEN Ok(<<16 * HexValue(s[1]) + HexValue(s[2])>> \o rest.val)
             ELSE rest
    ELSE Raise("ValueError")

RECURSIVE hex(_)
\* bytes.hex(): two lower-case hexadecimal digits per byte.
hex(b) ==
    IF b = <<>> THEN <<>>
    ELSE <<HexDigits[(b[1] \div 16) + 1], HexDigits[(b[1] % 16) + 1]>> \o hex(Tail(b))

\* The slice taken one character early: named_key["key"][4:].
drop_prefix_short(key) == SubSeq(key, 5, Len(key))

\* line 130: named_key["key"][5:]
drop_prefix(key) == SubSeq(key, 6, Len(key))

\* line 108: f"hash-{contract_hash.hex()}"
state_key(h) == <<"h", "a", "s", "h", "-">> \o hex(h)

\* Node RPC endpoints (pycspr/api/constants.py).
RPC_STATE_GET_ACCOUNT_INFO == "state_get_account_info"
RPC_STATE_GET_ITEM == "state_get_item"

\* The paths with two of the queries exchanged.
QueryPathsSwapped == <<"decimals", "symbol", "name", "total_supply">>

\* lines 79-82: the paths queried, in program order.
QueryPaths == <<"decimals", "name", "symbol", "total_supply">>

\* Keys a node may hold under a name: contract hashes (either case of
\* hexadecimal digits) and an unforgeable reference.
KeySamples ==
    {<<"h", "a", "s", "h", "-", "0", "a", "1", "b">>,
     <<"h", "a", "s", "h", "-", "F", "F">>,
     <<"u", "r", "e", "f", "-", "0", "a", "-", "0", "0", "7">>}

NamedKeyEntries == [name : {"ERC20", "other"}, key : KeySamples]

RECURSIVE SeqsUpTo(_, _)
SeqsUpTo(S, n) ==
    IF n = 0 THEN {<<>>}
    ELSE LET shorter == SeqsUpTo(S, n - 1)
         IN  shorter \cup {Append(q, e) : q \in shorter, e \in S}

NamedKeyLists == SeqsUpTo(NamedKeyEntries, MaxNamedKeys)

\* State-item responses {"CLValue": {bytes, cl_type, parsed}}; the node may
\* leave parsed out, and what it puts there need not agree with bytes.
StateItemResponses ==
    {[bytes |-> <<8>>, cl_type |-> "U8", has_parsed |-> TRUE, parsed |-> 8],
     [bytes |-> <<8>>, cl_type |-> "U8", has_parsed |-> TRUE, parsed |-> 9],
     [bytes |-> <<8>>, cl_type |-> "U8", has_parsed |-> FALSE, parsed |-> 0]}

MainInit ==
    /\ mpc = "get_client"
    /\ named_keys = <<>>
    /\ hpc = "not_called"
    /\ idx = 0
    /\ contract_hash = <<>>
    /\ rpc_log = <<>>
    /\ responses = <<>>
    /\ tokens = <<>>
    /\ mexc = "none"
    /\ x = PyInt(FALSE, <<>>) /\ length = 1 /\ signed = FALSE
    /\ desc = Simple("Unit") /\ epc = "idle"
    /\ ret = <<>> /\ exc = "none" /\ dec = NoDecode
    /\ ConcIdle

\* line 70: client = _get_client(args); builds objects, talks to nobody.
MGetClient ==
    /\ mpc = "get_client"
    /\ mpc' = "get_operator_key"
    /\ UNCHANGED <<named_keys, hpc, idx, contract_hash, rpc_log, responses,
                   tokens, mexc, encVars, concVars>>

\* line 73: operator = _get_operator_key(args); reads the key file, which
\* may be missing.
MGetOperatorKey ==
    /\ mpc = "get_operator_key"
    /\ \/ /\ mpc' = "get_contract_hash"
          /\ mexc' = mexc
       \/ /\ mpc' = "raised"
          /\ mexc' = "OSError"
    /\ UNCHANGED <<named_keys, hpc, idx, contract_hash, rpc_log, responses,
                   tokens, encVars, concVars>>

\* line 127: account_info = client.queries.get_account_info(...); the call
\* returns the account's named keys or raises.
HGetAccountInfo ==
    /\ mpc = "get_contract_hash"
    /\ hpc = "not_called"
    /\ rpc_log' = Append(rpc_log,
            [method |-> RPC_STATE_GET_ACCOUNT_INFO, key |-> <<>>, path |-> ""])
    /\ \/ /\ \E nk \in NamedKeyLists : named_keys' = nk
          /\ hpc' = "scanning"
          /\ idx' = 1
          /\ UNCHANGED <<mpc, mexc>>
       \/ /\ mpc' = "raised"
          /\ mexc' = "NodeError"
          /\ UNCHANGED <<named_keys, hpc, idx>>
    /\ UNCHANGED <<contract_hash, responses, tokens, encVars, concVars>>

\* lines 128-130: one round of the loop over named_keys.
HScanStep ==
    /\ hpc = "scanning"
    /\ idx <= Len(named_keys)
    /\ IF named_keys[idx].name = "ERC20"
       THEN LET r == fromhex(drop_prefix(named_keys[idx].key))
            IN  /\ contract_hash' = r.val
                /\ hpc' = IF r.ok THEN "returned" ELSE "raised"
                /\ mpc' = IF r.ok THEN "query" ELSE "raised"
                /\ mexc' = IF r.ok THEN mexc ELSE r.err
                /\ idx' = idx
       ELSE /\ idx' = idx + 1
            /\ UNCHANGED <<contract_hash, hpc, mpc, mexc>>
    /\ UNCHANGED <<named_keys, rpc_log, responses, tokens, encVars, concVars>>

\* line 132: the loop ended without a return.
HNotInstalled ==
    /\ hpc = "scanning"
    /\ idx > Len(named_keys)
    /\ hpc' = "raised"
    /\ mpc' = "raised"
    /\ mexc' = "ValueError"
    /\ UNCHANGED <<named_keys, idx, contract_hash, rpc_log, responses, tokens,
                   encVars, concVars>>

\* lines 104-110: the value _get_contract_data hands back for a response.
_get_contract_data(rsp) ==
    IF rsp.has_parsed THEN Ok(rsp.parsed) ELSE Raise("KeyError")

\* lines 79-82, each a call of _get_contract_data (lines 108-110): the query
\* is issued; the node answers or the call raises; the answer's "parsed"
\* member is returned.
MQuery ==
    /\ mpc = "query"
    /\ Len(tokens) < Len(QueryPaths)
    /\ rpc_log' = Append(rpc_log,
            [method |-> RPC_STATE_GET_ITEM, key |-> state_key(contract_hash),
             path |-> QueryPaths[Len(tokens) + 1]])
    /\ \/ \E rsp \in StateItemResponses :
            LET r == _get_contract_data(rsp)
            IN  /\ responses' = Append(responses, rsp)
                /\ tokens' = IF r.ok THEN Append(tokens, r.val) ELSE tokens
                /\ mpc' = IF r.ok THEN mpc ELSE "raised"
                /\ mexc' = r.err
       \/ /\ mpc' = "raised"
          /\ mexc' = "NodeError"
          /\ UNCHANGED <<responses, tokens>>
    /\ UNCHANGED <<named_keys, hpc, idx, contract_hash, encVars, concVars>>

\* lines 84-89: the four values are printed.
MPrint ==
    /\ mpc = "query"
    /\ Len(tokens) = Len(QueryPaths)
    /\ mpc' = "done"
    /\ UNCHANGED <<named_keys, hpc, idx, contract_hash, rpc_log, responses,
                   tokens, mexc, encVars, concVars>>

MainNext ==
    \/ MGetClient
    \/ MGetOperatorKey
    \/ HGetAccountInfo
    \/ HScanStep
    \/ HNotInstalled
    \/ MQuery
    \/ MPrint

SpecMain == MainInit /\ [][MainNext]_vars

----------------------------------------------------------------------------
(* Properties of the query how-to *)

HasERC20(nk) == \E i \in 1..Len(nk) : nk[i].name = "ERC20"

FirstERC20(nk) ==
    CHOOSE i \in 1..Len(nk) :
        nk[i].name = "ERC20" /\ \A j \in 1..(i - 1) : nk[j].name # "ERC20"

\* The key string of the first entry named "ERC20", less its first five
\* characters.
FirstKeyTail(nk) ==
    LET k == nk[FirstERC20(nk)].key IN [i \in 1..(Len(k) - 5) |-> k[i + 5]]

HashFinished == hpc \in {"returned", "raised"}

\* What the list-order scan must return for the first "ERC20" entry.
FirstMatchReturned ==
    hpc = "returned" =>
        /\ HasERC20(named_keys)
        /\ fromhex(FirstKeyTail(named_keys)).ok
        /\ contract_hash = fromhex(FirstKeyTail(named_keys)).val
        /\ FirstKeyTail(named_keys) = <<"0", "a", "1", "b">> =>
                contract_hash = <<10, 27>>
        /\ FirstKeyTail(named_keys) = <<"F", "F">> => contract_hash = <<255>>

\* C7 (as amended): _get_contract_hash returns the hex-decoded key, less its
\* first five characters, of the first entry named "ERC20"; it raises
\* ValueError exactly when no entry is named "ERC20" or when that first
\* entry's key, less its first five characters, is not hexadecimal.
C7_FirstMatchOrValueError ==
    /\ FirstMatchReturned
    /\ HashFinished =>
        ((hpc = "raised" /\ mexc = "ValueError") <=>
            (\/ ~HasERC20(named_keys)
             \/ ~fromhex(FirstKeyTail(named_keys)).ok))
    /\ hpc = "raised" => contract_hash = <<>>

\* The scan passed a non-matching entry, returned the second entry's key and
\* left a later "ERC20" entry with another key unread.
C7_Witness ==
    /\ hpc = "returned" /\ idx = 2 /\ Len(named_keys) = 3
    /\ named_keys[3].name = "ERC20"
    /\ named_keys[3].key # named_keys[2].key
    /\ contract_hash = <<255>>

\* C7 (as stated): ... it raises ValueError if and only if no entry is named
\* "ERC20".
C7_RaisesIffNoEntry ==
    /\ FirstMatchReturned
    /\ HashFinished =>
        ((hpc = "raised" /\ mexc = "ValueError") <=> ~HasERC20(named_keys))

\* C5: the value handed to the caller depends on bytes and cl_type alone:
\* two responses that agree on both give the same value, whatever their
\* "parsed" members.
C5_ParsedIsAdvisory ==
    \A i \in 1..Len(tokens) : \A j \in 1..Len(tokens) :
        (responses[i].bytes = responses[j].bytes
            /\ responses[i].cl_type = responses[j].cl_type)
        => tokens[i] = tokens[j]

ExpectedPaths == <<"decimals", "name", "symbol", "total_supply">>

\* The state-item queries issued so far follow the account-info query, in
\* program order, all against "hash-" followed by the hex of the hash.
QueriesInOrder ==
    /\ Len(rpc_log) <= 5
    /\ rpc_log # <<>> => rpc_log[1].method = "state_get_account_info"
    /\ Len(rpc_log) > 1 => hpc = "returned"
    /\ \A i \in 2..Len(rpc_log) :
        /\ rpc_log[i].method = "state_get_item"
        /\ rpc_log[i].path = ExpectedPaths[i - 1]
        /\ Len(rpc_log[i].key) = 5 + 2 * Len(contract_hash)
        /\ SubSeq(rpc_log[i].key, 1, 5) = <<"h", "a", "s", "h", "-">>
        /\ fromhex(SubSeq(rpc_log[i].key, 6, Len(rpc_log[i].key))).val = contract_hash
        /\ contract_hash = <<255>> =>
                rpc_log[i].key = <<"h", "a", "s", "h", "-", "f", "f">>
    /\ hpc = "raised" => (mpc = "raised" /\ mexc = "ValueError" /\ Len(rpc_log) = 1)
    /\ (HashFinished /\ ~HasERC20(named_keys)) => hpc = "raised"

\* C8 (as amended): the account-info query completes before any state-item
\* query; the state-item queries go out in the order decimals, name, symbol,
\* total_supply against the same key; a run that reaches the end has issued
\* exactly four; a run ends early at the first query that raises or whose
\* response has no "parsed", with no query after it; without an "ERC20"
\* entry the run ends with ValueError and no state-item query.
C8_QueriesInOrderUntilFailure ==
    /\ QueriesInOrder
    /\ mpc = "done" => (Len(rpc_log) = 5 /\ Len(tokens) = 4)
    /\ (mpc = "raised" /\ hpc = "returned") =>
        /\ mexc \in {"NodeError", "KeyError"}
        /\ Len(rpc_log) - 1 = Len(tokens) + 1
    /\ (mpc = "query") => Len(rpc_log) - 1 = Len(tokens)

\* A complete run: four queries against the lower-case key of a hash that
\* was given in upper case.
C8_Witness ==
    /\ mpc = "done" /\ Len(rpc_log) = 5 /\ contract_hash = <<255>>
    /\ rpc_log[5].path = "total_supply"

\* C8 (as stated): ... when the hash resolves, exactly four state-item
\* queries are issued.  Stated for the runs in which every response carried
\* "parsed", so that a violation does not rest on line 110.
C8_ExactlyFourQueries ==
    /\ QueriesInOrder
    /\ (mpc \in {"done", "raised"} /\ hpc = "returned" /\ mexc # "KeyError")
        => Len(rpc_log) = 5

----------------------------------------------------------------------------
(* The typed codec around int_to_le_bytes.  Only the integer encoder is    *)
(* among the sources; the dispatcher, the other encoders and every decoder *)
(* are taken from the specification (sections 3, 4.1-4.5).  Fixed-width    *)
(* integers and the four-byte count and length prefixes go through         *)
(* int_to_le_bytes.                                                        *)

\* Section 4.5: the bound on nesting of composite descriptors.
MaxNestingDepth == 32

FixedTags == {"U8", "U32", "U64", "I32", "I64"}
FixedLength(tag) ==
    CASE tag = "U8" -> 1 [] tag \in {"U32", "I32"} -> 4 [] OTHER -> 8
FixedSigned(tag) == tag \in {"I32", "I64"}

BigTags == {"U128", "U256", "U512"}
BigMaxBytes(tag) == CASE tag = "U128" -> 16 [] tag = "U256" -> 32 [] OTHER -> 64

\* Raw key bytes per signature algorithm tag, payload bytes per Key tag
\* (account, hash, unforgeable reference).
PublicKeyLength == [algo \in {1, 2} |-> IF algo = 1 THEN 32 ELSE 33]
KeyPayloadLength == [variant \in {0, 1, 2} |-> IF variant = 2 THEN 33 ELSE 32]

None == "None"

DOk(v, used) == [ok |-> TRUE, val |-> v, used |-> used, err |-> "none"]
DRaise(e) == [ok |-> FALSE, val |-> <<>>, used |-> 0, err |-> e]

Cat(a, b) == IF ~a.ok THEN a ELSE IF ~b.ok THEN b ELSE Ok(a.val \o b.val)

RECURSIVE MagToNat(_)
MagToNat(mag) == IF mag = <<>> THEN 0 ELSE mag[1] + 256 * MagToNat(Tail(mag))

\* A four-byte little-endian count or length prefix.
le_u32(n) == int_to_le_bytes(PyInt(FALSE, NatToMag(n)), 4, FALSE)

\* UTF-8 of one code point.
utf8_char(cp) ==
    IF cp < 128 THEN <<cp>>
    ELSE IF cp < 2048 THEN <<192 + (cp \div 64), 128 + (cp % 64)>>
    ELSE IF cp < 65536
    THEN <<224 + (cp \div 4096), 128 + ((cp \div 64) % 64), 128 + (cp % 64)>>
    ELSE <<240 + (cp \div 262144), 128 + ((cp \div 4096) % 64),
           128 + ((cp \div 64) % 64), 128 + (cp % 64)>>

RECURSIVE utf8(_)
utf8(str) == IF str = <<>> THEN <<>> ELSE utf8_char(str[1]) \o utf8(Tail(str))

IsCont(b) == b >= 128 /\ b < 192

RECURSIVE utf8_decode(_)
\* The code points of a UTF-8 byte sequence; MalformedUTF8 for a stray or
\* missing continuation byte, an overlong form, a surrogate or a value
\* beyond U+10FFFF.
utf8_decode(b) ==
    IF b = <<>> THEN Ok(<<>>)
    ELSE LET n == IF b[1] < 128 THEN 1
                  ELSE IF b[1] >= 192 /\ b[1] < 224 THEN 2
                  ELSE IF b[1] >= 224 /\ b[1] < 240 THEN 3
                  ELSE IF b[1] >= 240 /\ b[1] < 248 THEN 4
                  ELSE 0
         IN  IF n = 0 \/ Len(b) < n \/ \E i \in 2..n : ~IsCont(b[i])
             THEN Raise("MalformedUTF8")
             ELSE LET cp == CASE n = 1 -> b[1]
                              [] n = 2 -> (b[1] - 192) * 64 + (b[2] - 128)
                              [] n = 3 -> (b[1] - 224) * 4096 + (b[2] - 128) * 64
                                            + (b[3] - 128)
                              [] OTHER -> (b[1] - 240) * 262144 + (b[2] - 128) * 4096
                                            + (b[3] - 128) * 64 + (b[4] - 128)
                      rest == utf8_decode(SubSeq(b, n + 1, Len(b)))
                  IN  IF \/ (n = 2 /\ cp < 128) \/ (n = 3 /\ cp < 2048)
                         \/ (n = 4 /\ cp < 65536) \/ cp > 1114111
                         \/ (cp >= 55296 /\ cp < 57344)
                      THEN Raise("MalformedUTF8")
                      ELSE IF rest.ok THEN Ok(<<cp>> \o rest.val) ELSE rest

\* Section 4.2: the minimal little-endian magnitude (one zero byte for
\* zero) behind one byte holding its length.
encode_big(v, tag) ==
    LET m == IF v.mag = <<>> THEN <<0>> ELSE v.mag
    IN  IF v.neg \/ Len(m) > BigMaxBytes(tag) THEN Raise("IntegerOverflow")
        ELSE Ok(<<Len(m)>> \o m)

RECURSIVE encode(_, _, _)
RECURSIVE encode_each(_, _, _)

\* The encodings of vs under the descriptors ds, concatenated.
encode_each(vs, ds, depth) ==
    IF vs = <<>> THEN Ok(<<>>)
    ELSE Cat(encode(vs[1], ds[1], depth), encode_each(Tail(vs), Tail(ds), depth))

\* Section 4.5: encode(value, descriptor) -> bytes | Error.
encode(v, d, depth) ==
    IF depth > MaxNestingDepth THEN Raise("ExcessiveNestingDepth")
    ELSE CASE d.tag \in FixedTags ->
                int_to_le_bytes(v, FixedLength(d.tag), FixedSigned(d.tag))
           [] d.tag \in BigTags -> encode_big(v, d.tag)
           [] d.tag = "Bool" -> Ok(<<IF v THEN 1 ELSE 0>>)
           [] d.tag = "Unit" -> Ok(<<>>)
           [] d.tag = "String" ->
                LET u == utf8(v) IN Cat(le_u32(Len(u)), Ok(u))
           [] d.tag = "ByteArray" ->
                IF Len(v) = d.n THEN Ok(v) ELSE Raise("TypeMismatch")
           [] d.tag = "PublicKey" -> Ok(<<v.algo>> \o v.raw)
           [] d.tag = "URef" -> Ok(v.addr \o <<v.access>>)
           [] d.tag = "Key" -> Ok(<<v.variant>> \o v.payload)
           [] d.tag = "Option" ->
                IF v.some
                THEN Cat(Ok(<<1>>), encode(v.val[1], d.args[1], depth + 1))
                ELSE Ok(<<0>>)
           [] d.tag = "Result" ->
                IF v.is_ok
                THEN Cat(Ok(<<1>>), encode(v.ok[1], d.args[1], depth + 1))
                ELSE Cat(Ok(<<0>>), encode(v.err[1], d.args[2], depth + 1))
           [] d.tag = "List" ->
                Cat(le_u32(Len(v)),
                    encode_each(v, [i \in 1..Len(v) |-> d.args[1]], depth + 1))
           [] d.tag = "Map" ->
                Cat(le_u32(Len(v)),
                    encode_each(
                        [i \in 1..(2 * Len(v)) |-> v[(i + 1) \div 2][2 - (i % 2)]],
                        [i \in 1..(2 * Len(v)) |-> d.args[2 - (i % 2)]],
                        depth + 1))
           [] OTHER -> encode_each(v, d.args, depth + 1)

\* Section 4.2: the length byte, checked against the width, then that many
\* magnitude bytes.
decode_big(b, tag) ==
    IF b = <<>> THEN DRaise("BufferUnderflow")
    ELSE IF b[1] > BigMaxBytes(tag) THEN DRaise("InvalidLength")
    ELSE IF Len(b) < 1 + b[1] THEN DRaise("BufferUnderflow")
    ELSE DOk(PyInt(FALSE, Strip(SubSeq(b, 2, 1 + b[1]))), 1 + b[1])

\* A tag byte followed by a payload whose length the tag decides.
decode_tagged(b, len) ==
    IF b = <<>> THEN DRaise("BufferUnderflow")
    ELSE IF b[1] \notin DOMAIN len THEN DRaise("InvalidTag")
    ELSE IF Len(b) < 1 + len[b[1]] THEN DRaise("BufferUnderflow")
    ELSE DOk(SubSeq(b, 2, 1 + len[b[1]]), 1 + len[b[1]])

RECURSIVE decode(_, _, _)
RECURSIVE decode_each(_, _, _)
RECURSIVE decode_many(_, _, _, _)

\* One value per descriptor of ds, left to right.
decode_each(b, ds, depth) ==
    IF ds = <<>> THEN DOk(<<>>, 0)
    ELSE LET first == decode(b, ds[1], depth)
         IN  IF ~first.ok THEN first
             ELSE LET rest == decode_each(SubSeq(b, first.used + 1, Len(b)),
                                          Tail(ds), depth)
                  IN  IF ~rest.ok THEN rest
                      ELSE DOk(<<first.val>> \o rest.val, first.used + rest.used)

\* count groups of values under the descriptors ds, one group at a time.
decode_many(b, ds, count, depth) ==
    IF count = 0 THEN DOk(<<>>, 0)
    ELSE LET first == decode_each(b, ds, depth)
         IN  IF ~first.ok THEN first
             ELSE LET rest == decode_many(SubSeq(b, first.used + 1, Len(b)),
                                          ds, count - 1, depth)
                  IN  IF ~rest.ok THEN rest
                      ELSE DOk(<<first.val>> \o rest.val, first.used + rest.used)

\* Section 4.5: decode(bytes, descriptor) -> (value, bytes_consumed) | Error.
decode(b, d, depth) ==
    IF depth > MaxNestingDepth THEN DRaise("ExcessiveNestingDepth")
    ELSE CASE d.tag \in FixedTags ->
                decode_fixed(b, FixedLength(d.tag), FixedSigned(d.tag))
           [] d.tag \in BigTags -> decode_big(b, d.tag)
           [] d.tag = "Bool" ->
                IF b = <<>> THEN DRaise("BufferUnderflow")
                ELSE IF b[1] > 1 THEN DRaise("InvalidTag")
                ELSE DOk(b[1] = 1, 1)
           [] d.tag = "Unit" -> DOk(None, 0)
           [] d.tag = "String" ->
                LET n == decode_fixed(b, 4, FALSE)
                IN  IF ~n.ok THEN n
                    ELSE IF Len(b) < 4 + MagToNat(n.val.mag)
                    THEN DRaise("BufferUnderflow")
                    ELSE LET u == utf8_decode(SubSeq(b, 5, 4 + MagToNat(n.val.mag)))
                         IN  IF u.ok THEN DOk(u.val, 4 + MagToNat(n.val.mag))
                             ELSE DRaise(u.err)
           [] d.tag = "ByteArray" ->
                IF Len(b) < d.n THEN DRaise("BufferUnderflow")
                ELSE DOk(SubSeq(b, 1, d.n), d.n)
           [] d.tag = "PublicKey" ->
                LET r == decode_tagged(b, PublicKeyLength)
                IN  IF r.ok THEN DOk([algo |-> b[1], raw |-> r.val], r.used) ELSE r
           [] d.tag = "URef" ->
                IF Len(b) < 33 THEN DRaise("BufferUnderflow")
                ELSE DOk([addr |-> SubSeq(b, 1, 32), access |-> b[33]], 33)
           [] d.tag = "Key" ->
                LET r == decode_tagged(b, KeyPayloadLength)
                IN  IF r.ok THEN DOk([variant |-> b[1], payload |-> r.val], r.used)
                    ELSE r
           [] d.tag = "Option" ->
                IF b = <<>> THEN DRaise("BufferUnderflow")
                ELSE IF b[1] = 0 THEN DOk([some |-> FALSE, val |-> <<>>], 1)
                ELSE IF b[1] = 1
                THEN LET r == decode(Tail(b), d.args[1], depth + 1)
                     IN  IF r.ok
                         THEN DOk([some |-> TRUE, val |-> <<r.val>>], 1 + r.used)
                         ELSE r
                ELSE DRaise("InvalidTag")
           [] d.tag = "Result" ->
                IF b = <<>> THEN DRaise("BufferUnderflow")
                ELSE IF b[1] > 1 THEN DRaise("InvalidTag")
                ELSE LET r == decode(Tail(b), d.args[2 - b[1]], depth + 1)
                     IN  IF ~r.ok THEN r
                         ELSE IF b[1] = 1
                         THEN DOk([is_ok |-> TRUE, ok |-> <<r.val>>, err |-> <<>>],
                                  1 + r.used)
                         ELSE DOk([is_ok |-> FALSE, ok |-> <<>>, err |-> <<r.val>>],
                                  1 + r.used)
           [] d.tag \in {"List", "Map"} ->
                LET n == decode_fixed(b, 4, FALSE)
                IN  IF ~n.ok THEN n
                    ELSE LET r == decode_many(SubSeq(b, 5, Len(b)), d.args,
                                              MagToNat(n.val.mag), depth + 1)
                         IN  IF ~r.ok THEN r
                             ELSE IF d.tag = "List"
                             THEN DOk([i \in 1..Len(r.val) |-> r.val[i][1]], 4 + r.used)
                             ELSE DOk(r.val, 4 + r.used)
           [] OTHER -> decode_each(b, d.args, depth + 1)

----------------------------------------------------------------------------
(* Typed values and one encode / decode of each *)

OptionOf(t) == Desc("Option", 0, <<t>>)
ListOf(t) == Desc("List", 0, <<t>>)
MapOf(k, v) == Desc("Map", 0, <<k, v>>)
ResultOf(t, e) == Desc("Result", 0, <<t, e>>)
Tuple1Of(a) == Desc("Tuple1", 0, <<a>>)
Tuple2Of(a, b) == Desc("Tuple2", 0, <<a, b>>)
Tuple3Of(a, b, c) == Desc("Tuple3", 0, <<a, b, c>>)

Some(v) == [some |-> TRUE, val |-> <<v>>]
Nothing == [some |-> FALSE, val |-> <<>>]
OkOf(v) == [is_ok |-> TRUE, ok |-> <<v>>, err |-> <<>>]
ErrOf(e) == [is_ok |-> FALSE, ok |-> <<>>, err |-> <<e>>]

Descriptors ==
    {Simple(t) : t \in FixedTags \cup BigTags
                        \cup {"Bool", "Unit", "String", "Key", "URef", "PublicKey"}}
    \cup {Desc("ByteArray", 0, <<>>), Desc("ByteArray", 3, <<>>),
          OptionOf(Simple("U64")),
          OptionOf(ListOf(Simple("U64"))),
          OptionOf(OptionOf(Simple("Unit"))),
          ListOf(Simple("U32")),
          ListOf(OptionOf(Simple("U8"))),
          ListOf(ListOf(Simple("Bool"))),
          ListOf(Simple("String")),
          ResultOf(Simple("I64"), Simple("String")),
          MapOf(Simple("String"), Simple("U512")),
          MapOf(Simple("Bool"), OptionOf(Simple("U8"))),
          Tuple1Of(Simple("I64")),
          Tuple2Of(Simple("String"), Simple("I32")),
          Tuple3Of(Simple("Bool"), Simple("U8"), OptionOf(Simple("URef")))}

Filled(n, b) == [i \in 1..n |-> b]
Counted(n) == [i \in 1..n |-> i]

\* The ends of the range of a slot of n bytes, and the values next to zero.
FixedEdges(n, s) ==
    {v \in {PyInt(FALSE, <<>>), PyInt(FALSE, <<1>>), PyInt(FALSE, <<2>>),
            PyInt(TRUE, <<1>>), PyInt(FALSE, Filled(n, 255)),
            PyInt(FALSE, [i \in 1..n |-> IF i = n THEN 127 ELSE 255]),
            PyInt(TRUE, [i \in 1..n |-> IF i = n THEN 128 ELSE 0])} :
        Fits(v, n, s)}

RECURSIVE ElemDomain(_)
\* Values of a type, a few per primitive, used as members of composites.
ElemDomain(d) ==
    CASE d.tag \in FixedTags -> FixedEdges(FixedLength(d.tag), FixedSigned(d.tag))
      [] d.tag \in BigTags ->
            {PyInt(FALSE, <<>>), PyInt(FALSE, <<1>>), PyInt(FALSE, <<0, 1>>),
             PyInt(FALSE, Filled(BigMaxBytes(d.tag), 255))}
      [] d.tag = "Bool" -> BOOLEAN
      [] d.tag = "Unit" -> {None}
      [] d.tag = "String" -> {<<>>, <<97>>, <<97, 233, 8364, 128512>>}
      [] d.tag = "ByteArray" -> {Filled(d.n, 0), Counted(d.n), Filled(d.n, 255)}
      [] d.tag = "PublicKey" ->
            {[algo |-> a, raw |-> Counted(PublicKeyLength[a])] : a \in {1, 2}}
      [] d.tag = "URef" ->
            {[addr |-> Counted(32), access |-> 7], [addr |-> Filled(32, 255), access |-> 0]}
      [] d.tag = "Key" ->
            {[variant |-> k, payload |-> Counted(KeyPayloadLength[k])] : k \in {0, 1, 2}}
      [] d.tag = "Option" -> {Nothing} \cup {Some(v) : v \in ElemDomain(d.args[1])}
      [] d.tag = "Result" ->
            {OkOf(v) : v \in ElemDomain(d.args[1])}
                \cup {ErrOf(e) : e \in ElemDomain(d.args[2])}
      [] d.tag = "List" -> SeqsUpTo(ElemDomain(d.args[1]), MaxListLen)
      [] d.tag = "Map" ->
            SeqsUpTo({<<k, v>> : k \in ElemDomain(d.args[1]), v \in ElemDomain(d.args[2])},
                     MaxListLen)
      [] d.tag = "Tuple1" -> {<<a>> : a \in ElemDomain(d.args[1])}
      [] d.tag = "Tuple2" ->
            {<<a, b>> : a \in ElemDomain(d.args[1]), b \in ElemDomain(d.args[2])}
      [] OTHER ->
            {<<a, b, c>> : a \in ElemDomain(d.args[1]), b \in ElemDomain(d.args[2]),
                           c \in ElemDomain(d.args[3])}

\* The values encoded under d: for a fixed-width integer every input that
\* lies in its range.
Domain(d) ==
    IF d.tag \in FixedTags
    THEN {v \in IntInputs : Fits(v, FixedLength(d.tag), FixedSigned(d.tag))}
    ELSE ElemDomain(d)

CodecInit ==
    /\ desc \in Descriptors
    /\ x \in Domain(desc)
    /\ length = 1 /\ signed = FALSE
    /\ epc = "call"
    /\ ret = <<>>
    /\ exc = "none"
    /\ dec = NoDecode
    /\ ConcIdle
    /\ MainIdle

\* encode(x, desc)
CodecEncode ==
    /\ epc = "call"
    /\ LET r == encode(x, desc, 0)
       IN  /\ epc' = IF r.ok THEN "returned" ELSE "raised"
           /\ ret' = r.val
           /\ exc' = r.err
    /\ UNCHANGED <<x, length, signed, desc, dec, concVars, mainVars>>

\* decode(ret, desc)
CodecDecode ==
    /\ epc = "returned"
    /\ dec' = decode(ret, desc, 0)
    /\ epc' = "decoded"
    /\ UNCHANGED <<x, length, signed, desc, ret, exc, concVars, mainVars>>

CodecNext == CodecEncode \/ CodecDecode

SpecCodec == CodecInit /\ [][CodecNext]_vars

====
